---- MODULE Spec2Model ----
(***************************************************************************)
(* State-machine model of the realtime voice samples:                      *)
(*   qwen-sample/omni_realtime_client.py  OmniRealtimeClient (dispatcher)  *)
(*   qwen-sample/vad_mode.py              AudioPlayer, record_and_send,    *)
(*                                        main                             *)
(* The playback consumer is a thread, so its loop is modelled statement by *)
(* statement; the asyncio receive loop handles one frame per step.         *)
(***************************************************************************)
EXTENDS Integers, Sequences, FiniteSets, TLC

VARIABLES
    ws,                     \* OmniRealtimeClient.ws: "none" | "open"
    current_response_id,    \* OmniRealtimeClient._current_response_id
    current_item_id,        \* OmniRealtimeClient._current_item_id
    is_responding,          \* OmniRealtimeClient._is_responding
    event_type,             \* handle_messages: type of the frame last dispatched
    entry_state,            \* turn state on entry to that iteration of the loop
    hm_pc,                  \* handle_messages: "off" | "running" | "exited" | "cancelled"
    sent,                   \* frames written to the transport by send_event
    seen_session_updated,   \* a session.updated frame has been dispatched
    rec_pc,                 \* record_and_send: "off" | "read" | "send" | "raised"
    queue,                  \* AudioPlayer.queue
    stop_evt,               \* AudioPlayer.stop_evt
    interrupt_evt,          \* AudioPlayer.interrupt_evt
    stream,                 \* AudioPlayer.stream: "open" | "stopped" | "closed"
    run_pc,                 \* AudioPlayer._run: position of the consumer thread
    data,                   \* AudioPlayer._run: the item it holds
    written,                \* chunks written to the output device, in order
    nadded,                 \* number of chunks handed to add_audio so far
    caller_pc,              \* position of the thread calling handle_interrupt/stop
    caller_err,             \* a call of stop raised
    pending,                \* tag of a chunk decoded but not yet enqueued
    event_ids,              \* the event_id stamped on each frame of sent
    now,                    \* int(time.time() * 1000), the millisecond clock
    releases,               \* times the transport was actually released
    closes,                 \* calls of OmniRealtimeClient.close so far
    fed,                    \* scenario driver: frames of Scenario dispatched
    pcm,                    \* a raw PCM buffer (bytes)
    wire,                   \* its base64 text on the wire (character codes)
    decoded,                \* the bytes the inbound path decodes from wire
    codec_pc,               \* "raw" | "wire" | "decoded"
    shutdown_event,         \* asyncio.Event set by handle_shutdown
    session_ready_event,    \* asyncio.Event send_audio_from_mic waits on
    client_closed,          \* RTLowLevelClient.closed
    session_sent,           \* with_zhipu has sent its SessionUpdateMessage
    main_pc,                \* position of with_zhipu
    recv_pc,                \* position of MessageHandler.receive_messages
    msg_type,               \* msg_type of the last message it dispatched
    send_pc,                \* position of send_audio_from_mic
    is_playing,             \* AudioPlayer.is_playing
    audio_queue,            \* AudioPlayer.audio_queue
    zh_stream,              \* AudioPlayer.stream: "none" | "open"
    play_pc,                \* position of AudioPlayer._play_loop
    audio_data,             \* the item _play_loop took from audio_queue
    zh_written,             \* chunks passed to AudioPlayer.stream.write
    ndelta,                 \* response.audio.delta messages received so far
    print_input_transcript, \* OmniRealtimeClient._print_input_transcript
    output_transcript_buffer, \* OmniRealtimeClient._output_transcript_buffer
    delivered,              \* texts passed to on_output_transcript, in order
    tturn,                  \* response.audio_transcript.done frames so far
    ntr,                    \* response.audio_transcript.delta frames so far
    transport,              \* the pieces of text written to the websocket
    timed_out,              \* the last wait_for(client.recv()) timed out
    custom_handlers,        \* keys of MessageHandler._custom_handlers
    handler_calls,          \* calls of custom handlers so far
    voice,                  \* OmniRealtimeClient.voice
    instructions,           \* OmniRealtimeClient.instructions
    turn_detection_mode,    \* OmniRealtimeClient.turn_detection_mode
    session_payloads,       \* the "session" member of each session.update sent
    connect_raised,         \* connect raised ValueError
    zh_sent,                \* messages MessageHandler wrote to its client
    fc_name,                \* _handle_function_call: name
    fc_args                 \* _handle_function_call: arguments

vars == <<ws, current_response_id, current_item_id, is_responding, event_type,
          entry_state, hm_pc, sent, seen_session_updated, rec_pc, queue,
          stop_evt, interrupt_evt, stream, run_pc, data, written, nadded,
          caller_pc, caller_err, pending, fed, event_ids, now,
          releases, closes, pcm, wire, decoded, codec_pc,
          shutdown_event, session_ready_event, client_closed, session_sent,
          main_pc, recv_pc, msg_type, send_pc, is_playing, audio_queue,
          zh_stream, play_pc, audio_data, zh_written, ndelta,
          print_input_transcript, output_transcript_buffer, delivered,
          tturn, ntr, transport, timed_out, custom_handlers,
          handler_calls, voice, instructions, turn_detection_mode,
          session_payloads, connect_raised, zh_sent, fc_name, fc_args>>

clientVars == <<ws, current_response_id, current_item_id, is_responding,
                event_type, entry_state, hm_pc, sent, event_ids, transport,
                seen_session_updated>>
turnVars == <<current_response_id, current_item_id, is_responding>>
playerVars == <<queue, stop_evt, interrupt_evt, stream, run_pc, data, written,
                nadded, caller_pc, caller_err, pending>>
qwenAux == <<now, releases, closes>>
codecVars == <<pcm, wire, decoded, codec_pc>>
zhVars == <<shutdown_event, session_ready_event, client_closed, session_sent,
            main_pc, recv_pc, msg_type, send_pc, is_playing, audio_queue,
            zh_stream, play_pc, audio_data, zh_written, ndelta, timed_out,
            custom_handlers, handler_calls>>
handlerVars == <<custom_handlers, handler_calls>>
trVars == <<print_input_transcript, output_transcript_buffer, delivered,
            tturn, ntr>>
cfgVars == <<voice, instructions, turn_detection_mode, session_payloads,
             connect_raised>>
fcVars == <<zh_sent, fc_name, fc_args>>
restVars == <<qwenAux, codecVars, zhVars, trVars, cfgVars, fcVars>>
nonPlayerVars == <<clientVars, rec_pc, fed, restVars>>

(***************************************************************************)
(* Bounds                                                                  *)
(***************************************************************************)
MaxChunks == 3      \* chunks handed to add_audio
MaxAppend == 2      \* input_audio_buffer.append frames sent by the pump
MaxCancel == 2      \* response.cancel frames sent by the dispatcher
MaxStops == 2       \* stop sentinels put on the queue
MaxTime == 1        \* ticks of the millisecond clock
MaxSent == 2        \* frames on the transport before a caller stops sending
MaxCloses == 2      \* calls of close
MaxLen == 3         \* bytes in a PCM buffer
MaxDeltas == 2      \* response.audio.delta messages received
MaxTDeltas == 4     \* response.audio_transcript.delta frames received
MaxTurns == 3       \* response.audio_transcript.done frames received
MaxCalls == 2       \* calls of custom handlers
MaxUpdates == 2     \* calls of update_session by the application
MaxFnCalls == 2     \* function calls MessageHandler answers

None == "None"
ZhNone == 0         \* the None that AudioPlayer.stop puts on audio_queue
NoneItem == [id |-> 0, gen |-> 0]   \* the None put on the queue by stop
NoPending == -1                     \* no chunk between decode and enqueue
ResponseIds == {"r1", "r2"}
ItemIds == {"i1"}

(***************************************************************************)
(* Inbound frames.  id is the response/item id the frame carries (None     *)
(* when the field is absent); ok says whether the field the handler        *)
(* subscripts (event["delta"], event['error']) is present and decodable.   *)
(***************************************************************************)
Frame(t, i, k) == [type |-> t, id |-> i, ok |-> k]

PlainTypes == {"session.created", "session.updated", "response.done",
               "input_audio_buffer.speech_started",
               "input_audio_buffer.speech_stopped", "x.unknown"}

Frames ==
    {Frame(t, None, TRUE) : t \in PlainTypes}
    \cup {Frame("response.created", i, TRUE) : i \in ResponseIds \cup {None}}
    \cup {Frame("response.output_item.added", i, TRUE) : i \in ItemIds \cup {None}}
    \cup {Frame(t, None, k) : t \in {"error", "response.text.delta",
                                     "response.audio.delta"}, k \in BOOLEAN}

Count(s, x) == Cardinality({i \in 1..Len(s) : s[i] = x})

(***************************************************************************)
(* The playback state the code keeps for barge-in is the one-shot latch    *)
(* interrupt_evt; Generation reads it as the live generation.  A chunk is  *)
(* tagged with the generation live when it is handed to add_audio.         *)
(***************************************************************************)
Generation == IF interrupt_evt THEN 1 ELSE 0

Chunk(n) == [id |-> n, gen |-> Generation]

TurnState ==
    IF ~is_responding THEN "Idle"
    ELSE IF current_item_id = None THEN "AwaitingResponse" ELSE "Responding"

InitProgram ==
    /\ ws = "none"
    /\ current_response_id = None
    /\ current_item_id = None
    /\ is_responding = FALSE
    /\ event_type = None
    /\ entry_state = "Idle"
    /\ hm_pc = "off"
    /\ sent = <<>>
    /\ seen_session_updated = FALSE
    /\ rec_pc = "off"
    /\ queue = <<>>
    /\ stop_evt = FALSE
    /\ interrupt_evt = FALSE
    /\ stream = "open"
    /\ run_pc = "loop"
    /\ data = NoneItem
    /\ written = <<>>
    /\ nadded = 0
    /\ caller_pc = "idle"
    /\ caller_err = FALSE
    /\ pending = NoPending
    /\ fed = 0
    /\ event_ids = <<>>
    /\ now = 0
    /\ releases = 0
    /\ closes = 0
    /\ wire = <<>>
    /\ decoded = <<>>
    /\ codec_pc = "raw"
    /\ shutdown_event = FALSE
    /\ session_ready_event = FALSE
    /\ client_closed = FALSE
    /\ session_sent = FALSE
    /\ main_pc = "start"
    /\ recv_pc = "off"
    /\ msg_type = None
    /\ send_pc = "off"
    /\ is_playing = FALSE
    /\ audio_queue = <<>>
    /\ zh_stream = "none"
    /\ play_pc = "none"
    /\ audio_data = ZhNone
    /\ zh_written = <<>>
    /\ ndelta = 0
    /\ print_input_transcript = TRUE
    /\ output_transcript_buffer = <<>>
    /\ delivered = <<>>
    /\ tturn = 0
    /\ ntr = 0
    /\ transport = <<>>
    /\ timed_out = FALSE
    /\ custom_handlers = {}
    /\ handler_calls = 0
    /\ session_payloads = <<>>
    /\ connect_raised = FALSE
    /\ zh_sent = <<>>
    /\ fc_name = None
    /\ fc_args = None

\* vad_mode.main: the arguments it constructs OmniRealtimeClient with
MainConfig ==
    /\ voice = "Cherry"
    /\ instructions = "xiaoyun"
    /\ turn_detection_mode = "SERVER_VAD"

Init ==
    /\ InitProgram
    /\ MainConfig
    /\ pcm = <<>>

(***************************************************************************)
(* vad_mode.AudioPlayer                                                    *)
(***************************************************************************)
\* add_audio: self.queue.put(data)
add_audio ==
    /\ nadded < MaxChunks
    /\ nadded' = nadded + 1
    /\ queue' = Append(queue, Chunk(nadded + 1))

\* _run, line 15: while not self.stop_evt.is_set()
RunLoop ==
    /\ run_pc = "loop"
    /\ run_pc' = IF stop_evt THEN "exit" ELSE "get"
    /\ UNCHANGED <<queue, stop_evt, interrupt_evt, stream, data, written,
                   nadded, caller_pc, caller_err, pending>>
    /\ UNCHANGED nonPlayerVars

\* a consumer that takes the newest item instead of the oldest
RunGetNewest ==
    /\ run_pc = "get"
    /\ IF queue # <<>>
       THEN /\ data' = queue[Len(queue)]
            /\ queue' = SubSeq(queue, 1, Len(queue) - 1)
            /\ run_pc' = "check"
       ELSE /\ run_pc' = "loop"
            /\ UNCHANGED <<data, queue>>
    /\ UNCHANGED <<stop_evt, interrupt_evt, stream, written, nadded,
                   caller_pc, caller_err, pending>>
    /\ UNCHANGED nonPlayerVars

\* _run, line 17 and 21: queue.get(timeout=0.5); queue.Empty -> continue
RunGet ==
    /\ run_pc = "get"
    /\ IF queue # <<>>
       THEN /\ data' = Head(queue)
            /\ queue' = Tail(queue)
            /\ run_pc' = "check"
       ELSE /\ run_pc' = "loop"
            /\ UNCHANGED <<data, queue>>
    /\ UNCHANGED <<stop_evt, interrupt_evt, stream, written, nadded,
                   caller_pc, caller_err, pending>>
    /\ UNCHANGED nonPlayerVars

\* _run, lines 18-19: None breaks; the interrupt latch is tested before the write
RunCheck ==
    /\ run_pc = "check"
    /\ run_pc' = IF data = NoneItem THEN "exit"
                 ELSE IF ~interrupt_evt THEN "write" ELSE "loop"
    /\ data' = IF data # NoneItem /\ ~interrupt_evt THEN data ELSE NoneItem
    /\ UNCHANGED <<queue, stop_evt, interrupt_evt, stream, written, nadded,
                   caller_pc, caller_err, pending>>
    /\ UNCHANGED nonPlayerVars

\* _run, lines 19-20: self.stream.write(data); a write on a stream that stop
\* has stopped or closed raises and ends the thread
RunWrite ==
    /\ run_pc = "write"
    /\ IF stream = "open"
       THEN /\ written' = Append(written, data)
            /\ run_pc' = "loop"
       ELSE /\ run_pc' = "crashed"
            /\ UNCHANGED written
    /\ data' = NoneItem
    /\ UNCHANGED <<queue, stop_evt, interrupt_evt, stream, nadded, caller_pc,
                   caller_err, pending>>
    /\ UNCHANGED nonPlayerVars

\* a caller thread hands a chunk to add_audio
CallAddAudio ==
    /\ caller_pc = "idle"
    /\ pending = NoPending
    /\ add_audio
    /\ UNCHANGED <<stop_evt, interrupt_evt, stream, run_pc, data, written,
                   caller_pc, caller_err, pending>>
    /\ UNCHANGED nonPlayerVars

\* handle_interrupt, first statement: self.interrupt_evt.set()
InterruptSet ==
    /\ caller_pc = "idle"
    /\ interrupt_evt' = TRUE
    /\ caller_pc' = "int_clear"
    /\ UNCHANGED <<queue, stop_evt, stream, run_pc, data, written, nadded,
                   caller_err, pending>>
    /\ UNCHANGED nonPlayerVars

\* handle_interrupt, second statement: self.queue.queue.clear()
InterruptClear ==
    /\ caller_pc = "int_clear"
    /\ queue' = <<>>
    /\ caller_pc' = "idle"
    /\ UNCHANGED <<stop_evt, interrupt_evt, stream, run_pc, data, written,
                   nadded, caller_err, pending>>
    /\ UNCHANGED nonPlayerVars

\* handle_interrupt's queue.queue.clear() takes no mutex: it can empty the
\* deque after Queue.get has found it non-empty and before get's popleft,
\* which then raises IndexError; _run catches queue.Empty only
RunGetRaced ==
    /\ run_pc = "get"
    /\ queue # <<>>
    /\ caller_pc = "int_clear"
    /\ queue' = <<>>
    /\ caller_pc' = "idle"
    /\ run_pc' = "crashed"
    /\ UNCHANGED <<stop_evt, interrupt_evt, stream, data, written, nadded,
                   caller_err, pending>>
    /\ UNCHANGED nonPlayerVars

\* stop, first statement: self.stop_evt.set()
StopSet ==
    /\ caller_pc = "idle"
    /\ Count(queue, NoneItem) < MaxStops
    /\ stop_evt' = TRUE
    /\ caller_pc' = "stop_put"
    /\ UNCHANGED <<queue, interrupt_evt, stream, run_pc, data, written,
                   nadded, caller_err, pending>>
    /\ UNCHANGED nonPlayerVars

\* stop, second statement: self.queue.put(None)
StopPut ==
    /\ caller_pc = "stop_put"
    /\ queue' = Append(queue, NoneItem)
    /\ caller_pc' = "stop_stream"
    /\ UNCHANGED <<stop_evt, interrupt_evt, stream, run_pc, data, written,
                   nadded, caller_err, pending>>
    /\ UNCHANGED nonPlayerVars

\* stop, third statement: self.stream.stop_stream(); raises on a closed stream
StopStream ==
    /\ caller_pc = "stop_stream"
    /\ IF stream = "closed"
       THEN /\ caller_err' = TRUE
            /\ caller_pc' = "idle"
            /\ UNCHANGED stream
       ELSE /\ stream' = "stopped"
            /\ caller_pc' = "stop_close"
            /\ UNCHANGED caller_err
    /\ UNCHANGED <<queue, stop_evt, interrupt_evt, run_pc, data, written,
                   nadded, pending>>
    /\ UNCHANGED nonPlayerVars

\* stop, fourth statement: self.stream.close()
StopClose ==
    /\ caller_pc = "stop_close"
    /\ stream' = "closed"
    /\ caller_pc' = "idle"
    /\ UNCHANGED <<queue, stop_evt, interrupt_evt, run_pc, data, written,
                   nadded, caller_err, pending>>
    /\ UNCHANGED nonPlayerVars

\* a producer decodes a chunk: it is tagged with the generation live now
\* (omni_realtime_client.py line 185, before the on_audio_delta call)
ProducerDecode ==
    /\ pending = NoPending
    /\ nadded < MaxChunks
    /\ pending' = Generation
    /\ UNCHANGED <<queue, stop_evt, interrupt_evt, stream, run_pc, data,
                   written, nadded, caller_pc, caller_err>>
    /\ UNCHANGED nonPlayerVars

\* the producer then hands it to add_audio: self.queue.put(data), no test
ProducerEnqueue ==
    /\ pending # NoPending
    /\ queue' = Append(queue, [id |-> nadded + 1, gen |-> pending])
    /\ nadded' = nadded + 1
    /\ pending' = NoPending
    /\ UNCHANGED <<stop_evt, interrupt_evt, stream, run_pc, data, written,
                   caller_pc, caller_err>>
    /\ UNCHANGED nonPlayerVars

PlayerNext ==
    \/ RunLoop
    \/ RunGet
    \/ RunCheck
    \/ RunWrite
    \/ CallAddAudio
    \/ InterruptSet
    \/ InterruptClear
    \/ RunGetRaced
    \/ StopSet
    \/ StopPut
    \/ StopStream
    \/ StopClose
    \/ ProducerDecode
    \/ ProducerEnqueue

SpecPlayer == Init /\ [][PlayerNext]_vars

\* the consumer is a running thread: each of its steps is eventually taken
SpecPlayerFair ==
    /\ SpecPlayer
    /\ WF_vars(RunLoop)
    /\ WF_vars(RunGet)
    /\ WF_vars(RunCheck)
    /\ WF_vars(RunWrite)

(***************************************************************************)
(* OmniRealtimeClient                                                      *)
(***************************************************************************)
\* json.dumps(event): the text of frame k, its type and its event_id
FrameText(k, t, id) ==
    << [frame |-> k, field |-> "type", val |-> t],
       [frame |-> k, field |-> "event_id", val |-> id] >>

\* a send_event that is overtaken after the first piece of its frame
send_event_cut_short(t) ==
    /\ sent' = Append(sent, t)
    /\ event_ids' = Append(event_ids, now)
    /\ transport' = Append(transport, FrameText(Len(sent) + 1, t, now)[1])

\* send_event: stamps the event and hands its whole text to ws.send
send_event(t) ==
    /\ sent' = Append(sent, t)
    /\ event_ids' = Append(event_ids, now)
    /\ transport' = transport \o FrameText(Len(sent) + 1, t, now)

\* update_session: one session.update frame whose "session" is config
update_session(config) ==
    /\ send_event("session.update")
    /\ session_payloads' = Append(session_payloads, config)

\* stream_audio: base64 of the buffer in one input_audio_buffer.append frame
stream_audio ==
    /\ Count(sent, "input_audio_buffer.append") < MaxAppend
    /\ send_event("input_audio_buffer.append")

\* cancel_response: one response.cancel frame
cancel_response ==
    /\ Count(sent, "response.cancel") < MaxCancel
    /\ send_event("response.cancel")

\* handle_interruption: cancels the live response and resets the turn
handle_interruption ==
    IF ~is_responding
    THEN UNCHANGED <<turnVars, sent, event_ids, transport>>
    ELSE /\ IF current_response_id # None
            THEN cancel_response
            ELSE UNCHANGED <<sent, event_ids, transport>>
         /\ is_responding' = FALSE
         /\ current_response_id' = None
         /\ current_item_id' = None

\* handle_messages, "error": prints event['error'] and continues
OnError(f) ==
    /\ hm_pc' = IF f.ok THEN "running" ELSE "exited"
    /\ UNCHANGED <<turnVars, sent, event_ids, transport, queue, nadded>>

\* handle_messages, "response.created"
OnResponseCreated(f) ==
    /\ current_response_id' = f.id
    /\ is_responding' = TRUE
    /\ UNCHANGED <<current_item_id, sent, event_ids, transport, queue, nadded, hm_pc>>

\* handle_messages, "response.output_item.added"
OnOutputItemAdded(f) ==
    /\ current_item_id' = f.id
    /\ UNCHANGED <<current_response_id, is_responding, sent, event_ids, transport, queue, nadded,
                   hm_pc>>

\* a response.done branch that forgets the item id
OnResponseDoneKeepsItem ==
    /\ is_responding' = FALSE
    /\ current_response_id' = None
    /\ UNCHANGED <<current_item_id, sent, event_ids, transport, queue, nadded, hm_pc>>

\* handle_messages, "response.done"
OnResponseDone ==
    /\ is_responding' = FALSE
    /\ current_response_id' = None
    /\ current_item_id' = None
    /\ UNCHANGED <<sent, event_ids, transport, queue, nadded, hm_pc>>

\* a speech_started branch that cancels without testing _is_responding
OnSpeechStartedAlwaysCancels ==
    /\ cancel_response
    /\ is_responding' = FALSE
    /\ current_response_id' = None
    /\ current_item_id' = None
    /\ UNCHANGED <<queue, nadded, hm_pc>>

\* handle_messages, "input_audio_buffer.speech_started"
OnSpeechStarted ==
    /\ IF is_responding
       THEN handle_interruption
       ELSE UNCHANGED <<turnVars, sent, event_ids, transport>>
    /\ UNCHANGED <<queue, nadded, hm_pc>>

\* a speech_stopped branch that treats the end of speech as an interruption
OnSpeechStoppedInterrupts ==
    /\ handle_interruption
    /\ UNCHANGED <<queue, nadded, hm_pc>>

\* handle_messages, "input_audio_buffer.speech_stopped": prints only
OnSpeechStopped == UNCHANGED <<turnVars, sent, event_ids, transport, queue, nadded, hm_pc>>

\* handle_messages, "response.text.delta": on_text_delta(event["delta"])
OnTextDelta(f) ==
    /\ hm_pc' = IF f.ok THEN "running" ELSE "exited"
    /\ UNCHANGED <<turnVars, sent, event_ids, transport, queue, nadded>>

\* handle_messages, "response.audio.delta": decode, then on_audio_delta,
\* which main binds to player.add_audio; a failed decode raises
OnAudioDelta(f) ==
    /\ IF f.ok
       THEN add_audio /\ UNCHANGED hm_pc
       ELSE hm_pc' = "exited" /\ UNCHANGED <<queue, nadded>>
    /\ UNCHANGED <<turnVars, sent, event_ids, transport>>

\* a dispatcher that raises on a type it does not know
OnOtherRaises ==
    /\ hm_pc' = "exited"
    /\ UNCHANGED <<turnVars, sent, event_ids, transport, queue, nadded>>

\* handle_messages, any other type: extra_event_handlers is empty in main
OnOther == UNCHANGED <<turnVars, sent, event_ids, transport, queue, nadded, hm_pc>>

\* handle_messages: one iteration of "async for message in self.ws"
HandleMessage(f) ==
    /\ ws = "open"
    /\ hm_pc = "running"
    /\ event_type' = f.type
    /\ entry_state' = TurnState
    /\ seen_session_updated' = (seen_session_updated \/ f.type = "session.updated")
    /\ CASE f.type = "error" -> OnError(f)
         [] f.type = "response.created" -> OnResponseCreated(f)
         [] f.type = "response.output_item.added" -> OnOutputItemAdded(f)
         [] f.type = "response.done" -> OnResponseDone
         [] f.type = "input_audio_buffer.speech_started" -> OnSpeechStarted
         [] f.type = "input_audio_buffer.speech_stopped" -> OnSpeechStopped
         [] f.type = "response.text.delta" -> OnTextDelta(f)
         [] f.type = "response.audio.delta" -> OnAudioDelta(f)
         [] OTHER -> OnOther
    /\ UNCHANGED <<ws, rec_pc, stop_evt, interrupt_evt, stream, run_pc, data,
                   written, caller_pc, caller_err, pending, restVars>>

\* the receive loop takes whatever frame the server sends next
Receive ==
    /\ \E f \in Frames : HandleMessage(f)
    /\ UNCHANGED fed

\* connect: session_config['turn_detection'] in the two modes
NullDetection == [type |-> "null"]
ServerVad == [type |-> "server_vad", threshold |-> 1, prefix_padding_ms |-> 500,
              silence_duration_ms |-> 900]

\* connect: the session configuration, built from the client's fields
session_config(td) ==
    [modalities |-> <<"text", "audio">>,
     voice |-> voice,
     instructions |-> instructions,
     input_audio_format |-> "pcm16",
     output_audio_format |-> "pcm24",
     input_audio_transcription |-> [model |-> "gummy-realtime-v1"],
     turn_detection |-> td]

\* a connect that sends the configuration before it looks at the mode
connect_sends_unchecked ==
    /\ ws' = "open"
    /\ update_session(session_config(IF turn_detection_mode = "MANUAL"
                                      THEN NullDetection ELSE ServerVad))
    /\ connect_raised' = (turn_detection_mode \notin {"MANUAL", "SERVER_VAD"})

\* connect: opens the websocket, then sends the configuration of the mode,
\* or raises ValueError when the mode is neither
connect ==
    /\ ws' = "open"
    /\ CASE turn_detection_mode = "MANUAL" ->
               /\ update_session(session_config(NullDetection))
               /\ UNCHANGED connect_raised
         [] turn_detection_mode = "SERVER_VAD" ->
               /\ update_session(session_config(ServerVad))
               /\ UNCHANGED connect_raised
         [] OTHER ->
               /\ connect_raised' = TRUE
               /\ UNCHANGED <<sent, event_ids, transport, session_payloads>>

\* main: connect (which sends the session configuration), then gather
\* handle_messages and record_and_send; an exception of connect ends main
MainConnect ==
    /\ ws = "none"
    /\ connect
    /\ hm_pc' = IF connect_raised' THEN hm_pc ELSE "running"
    /\ rec_pc' = IF connect_raised' THEN rec_pc ELSE "read"
    /\ UNCHANGED <<turnVars, event_type, entry_state, seen_session_updated,
                   playerVars, fed, qwenAux, codecVars, zhVars, trVars,
                   voice, instructions, turn_detection_mode, fcVars>>

\* the wall clock advances by a millisecond
Tick ==
    /\ now < MaxTime
    /\ now' = now + 1
    /\ UNCHANGED <<clientVars, playerVars, rec_pc, fed, releases, closes,
                   codecVars, zhVars, trVars, cfgVars, fcVars>>

\* commit_audio_buffer: one input_audio_buffer.commit frame
commit_audio_buffer == send_event("input_audio_buffer.commit")

\* create_response: one response.create frame
create_response == send_event("response.create")

\* the application calls one of the client's send operations
ClientSend ==
    /\ ws = "open"
    /\ Len(sent) < MaxSent
    /\ commit_audio_buffer \/ create_response
    /\ UNCHANGED <<ws, turnVars, event_type, entry_state, hm_pc,
                   seen_session_updated, playerVars, rec_pc, fed, restVars>>

\* a close that releases the transport on every call
close_releases_again ==
    /\ ws' = IF ws = "none" THEN "none" ELSE "closed"
    /\ releases' = IF ws = "none" THEN releases ELSE releases + 1

\* close: "if self.ws: await self.ws.close()"; closing a websocket that is
\* already closed returns at once
close ==
    IF ws = "open"
    THEN ws' = "closed" /\ releases' = releases + 1
    ELSE UNCHANGED <<ws, releases>>

\* the application calls close
ClientClose ==
    /\ closes < MaxCloses
    /\ closes' = closes + 1
    /\ close
    /\ UNCHANGED <<turnVars, event_type, entry_state, hm_pc, sent, event_ids, transport,
                   seen_session_updated, playerVars, rec_pc, fed, now,
                   codecVars, zhVars, trVars, cfgVars, fcVars>>

\* handle_messages: "async for message in self.ws" ends when the
\* connection is closed
HmConnectionClosed ==
    /\ ws = "closed"
    /\ hm_pc = "running"
    /\ hm_pc' = "exited"
    /\ UNCHANGED <<ws, turnVars, event_type, entry_state, sent, event_ids, transport,
                   seen_session_updated, playerVars, rec_pc, fed, restVars>>

\* the client under an application that sends, closes and lets time pass
ClientNext ==
    \/ MainConnect
    \/ Receive
    \/ ClientSend
    \/ ClientClose
    \/ HmConnectionClosed
    \/ Tick

SpecClient == Init /\ [][ClientNext]_vars

(***************************************************************************)
(* vad_mode.record_and_send                                                *)
(***************************************************************************)
\* audio_data = stream.read(3200)
RecRead ==
    /\ rec_pc = "read"
    /\ rec_pc' = "send"
    /\ UNCHANGED <<clientVars, playerVars, fed, restVars>>

\* await client.stream_audio(audio_data); await asyncio.sleep(0.02)
RecSend ==
    /\ rec_pc = "send"
    /\ ws = "open"
    /\ stream_audio
    /\ rec_pc' = "read"
    /\ UNCHANGED <<ws, turnVars, event_type, entry_state, hm_pc,
                   seen_session_updated, playerVars, fed, restVars>>

Next ==
    \/ MainConnect
    \/ Receive
    \/ RecRead
    \/ RecSend
    \/ RunLoop
    \/ RunGet
    \/ RunCheck
    \/ RunWrite

Spec == Init /\ [][Next]_vars

(***************************************************************************)
(* The frame sequence of the barge-in scenario                             *)
(***************************************************************************)
Scenario ==
    << Frame("session.created", None, TRUE),
       Frame("session.updated", None, TRUE),
       Frame("response.created", "r1", TRUE),
       Frame("response.audio.delta", None, TRUE),
       Frame("input_audio_buffer.speech_started", None, TRUE),
       Frame("response.audio.delta", None, TRUE) >>

ScenarioFeed ==
    /\ fed < Len(Scenario)
    /\ HandleMessage(Scenario[fed + 1])
    /\ fed' = fed + 1

ScenarioNext ==
    \/ MainConnect
    \/ ScenarioFeed
    \/ RecRead
    \/ RecSend
    \/ RunLoop
    \/ RunGet
    \/ RunCheck
    \/ RunWrite

SpecScenario == Init /\ [][ScenarioNext]_vars

(***************************************************************************)
(* The audio wire format: base64.b64encode(...).decode() outbound,         *)
(* base64.b64decode(...) inbound.  Text is a sequence of character codes.  *)
(***************************************************************************)
ByteSamples == {0, 1, 90, 128, 165, 255}

Buffers == UNION {[1..n -> ByteSamples] : n \in 0..MaxLen}

PadChar == 61       \* "="

\* the character of a 6-bit value in the standard alphabet A-Z a-z 0-9 + /
B64Char(v) ==
    IF v < 26 THEN 65 + v
    ELSE IF v < 52 THEN 97 + (v - 26)
    ELSE IF v < 62 THEN 48 + (v - 52)
    ELSE IF v = 62 THEN 43 ELSE 47

\* the 6-bit value of a character of the alphabet
B64Value(c) ==
    IF c >= 65 /\ c <= 90 THEN c - 65
    ELSE IF c >= 97 /\ c <= 122 THEN c - 97 + 26
    ELSE IF c >= 48 /\ c <= 57 THEN c - 48 + 52
    ELSE IF c = 43 THEN 62 ELSE 63

\* a group encoder that masks the last character one bit short
EncodeTripleShortMask(a, b, c) ==
    << B64Char(a \div 4),
       B64Char((a % 4) * 16 + b \div 16),
       B64Char((b % 16) * 4 + c \div 64),
       B64Char(c % 32) >>

\* three bytes become four characters
EncodeTriple(a, b, c) ==
    << B64Char(a \div 4),
       B64Char((a % 4) * 16 + b \div 16),
       B64Char((b % 16) * 4 + c \div 64),
       B64Char(c % 64) >>

RECURSIVE B64Encode(_)
\* base64.b64encode: whole triples, then a padded group for 1 or 2 bytes
B64Encode(bs) ==
    IF Len(bs) = 0 THEN <<>>
    ELSE IF Len(bs) = 1
    THEN << B64Char(bs[1] \div 4), B64Char((bs[1] % 4) * 16),
            PadChar, PadChar >>
    ELSE IF Len(bs) = 2
    THEN << B64Char(bs[1] \div 4),
            B64Char((bs[1] % 4) * 16 + bs[2] \div 16),
            B64Char((bs[2] % 16) * 4), PadChar >>
    ELSE EncodeTriple(bs[1], bs[2], bs[3])
            \o B64Encode(SubSeq(bs, 4, Len(bs)))

\* four characters become up to three bytes
DecodeQuad(q) ==
    LET v1 == B64Value(q[1])
        v2 == B64Value(q[2])
        v3 == B64Value(q[3])
        v4 == B64Value(q[4])
    IN  IF q[3] = PadChar
        THEN << v1 * 4 + v2 \div 16 >>
        ELSE IF q[4] = PadChar
        THEN << v1 * 4 + v2 \div 16, (v2 % 16) * 16 + v3 \div 4 >>
        ELSE << v1 * 4 + v2 \div 16, (v2 % 16) * 16 + v3 \div 4,
                (v3 % 4) * 64 + v4 >>

RECURSIVE B64Decode(_)
\* base64.b64decode of well-padded text, four characters at a time
B64Decode(cs) ==
    IF Len(cs) < 4 THEN <<>>
    ELSE DecodeQuad(SubSeq(cs, 1, 4)) \o B64Decode(SubSeq(cs, 5, Len(cs)))

CodecInit ==
    /\ InitProgram
    /\ MainConfig
    /\ pcm \in Buffers

\* stream_audio: audio_b64 = base64.b64encode(audio_chunk).decode()
CodecEncode ==
    /\ codec_pc = "raw"
    /\ wire' = B64Encode(pcm)
    /\ codec_pc' = "wire"
    /\ UNCHANGED <<pcm, decoded, clientVars, playerVars, rec_pc, fed, qwenAux,
                   zhVars, trVars, cfgVars, fcVars>>

\* handle_messages: audio_bytes = base64.b64decode(event["delta"])
CodecDecode ==
    /\ codec_pc = "wire"
    /\ decoded' = B64Decode(wire)
    /\ codec_pc' = "decoded"
    /\ UNCHANGED <<pcm, wire, clientVars, playerVars, rec_pc, fed, qwenAux,
                   zhVars, trVars, cfgVars, fcVars>>

CodecNext ==
    \/ CodecEncode
    \/ CodecDecode

SpecCodec == CodecInit /\ [][CodecNext]_vars

(***************************************************************************)
(* The Zhipu sample: with_zhipu, MessageHandler.receive_messages,          *)
(* audio_player.AudioPlayer and send_audio_from_mic, sharing               *)
(* shutdown_event and session_ready_event.                                 *)
(***************************************************************************)
\* message types the receive loop prints and does nothing else with
ZhPlainTypes == {"session.created", "session.updated", "error",
                 "input_audio_buffer.speech_started",
                 "input_audio_buffer.speech_stopped", "response.created",
                 "response.done", "heartbeat", "unknown.type"}

\* message types a host registers custom handlers for
HandlerTypes == {"response.audio.delta", "unknown.type"}

nonZhVars == <<clientVars, playerVars, rec_pc, fed, qwenAux, codecVars,
               trVars, cfgVars, fcVars>>

\* handle_shutdown: a SIGINT or SIGTERM sets the shared event
handle_shutdown ==
    /\ ~shutdown_event
    /\ shutdown_event' = TRUE
    /\ UNCHANGED <<session_ready_event, client_closed, session_sent, main_pc,
                   recv_pc, msg_type, send_pc, is_playing, audio_queue,
                   zh_stream, play_pc, audio_data, zh_written, ndelta>>
    /\ UNCHANGED timed_out
    /\ UNCHANGED <<handlerVars, nonZhVars>>

\* with_zhipu up to asyncio.create_task(message_handler.receive_messages())
ZhCreateReceiveTask ==
    /\ main_pc = "start"
    /\ IF shutdown_event
       THEN main_pc' = "returned" /\ recv_pc' = recv_pc
       ELSE main_pc' = "send_session" /\ recv_pc' = "loop"
    /\ UNCHANGED <<shutdown_event, session_ready_event, client_closed,
                   session_sent, msg_type, send_pc, is_playing, audio_queue,
                   zh_stream, play_pc, audio_data, zh_written, ndelta>>
    /\ UNCHANGED timed_out
    /\ UNCHANGED <<handlerVars, nonZhVars>>

\* with_zhipu: await client.send(session_message), then either return or
\* asyncio.create_task(send_audio_from_mic(...)), which runs to its wait
ZhStartPump ==
    /\ main_pc = "send_session"
    /\ session_sent' = TRUE
    /\ IF shutdown_event
       THEN main_pc' = "returned" /\ send_pc' = send_pc
       ELSE main_pc' = "gather" /\ send_pc' = "wait_ready"
    /\ UNCHANGED <<shutdown_event, session_ready_event, client_closed,
                   recv_pc, msg_type, is_playing, audio_queue,
                   zh_stream, play_pc, audio_data, zh_written, ndelta>>
    /\ UNCHANGED timed_out
    /\ UNCHANGED <<handlerVars, nonZhVars>>

\* send_audio_from_mic: "await session_ready_event.wait()" can return
PumpProceeds == send_pc = "wait_ready" /\ session_ready_event

\* a receive loop whose clean-up is not in a finally clause
RmCheckReturns ==
    /\ recv_pc = "loop"
    /\ recv_pc' = IF client_closed \/ shutdown_event THEN "done" ELSE "recv"
    /\ UNCHANGED <<shutdown_event, session_ready_event, client_closed,
                   session_sent, main_pc, msg_type, send_pc, is_playing,
                   audio_queue, zh_stream, play_pc, audio_data, zh_written,
                   ndelta>>
    /\ UNCHANGED timed_out
    /\ UNCHANGED <<handlerVars, nonZhVars>>

\* receive_messages: the loop condition and the shutdown check
RmCheck ==
    /\ recv_pc = "loop"
    /\ recv_pc' = IF client_closed \/ shutdown_event THEN "stop" ELSE "recv"
    /\ UNCHANGED <<shutdown_event, session_ready_event, client_closed,
                   session_sent, main_pc, msg_type, send_pc, is_playing,
                   audio_queue, zh_stream, play_pc, audio_data, zh_written,
                   ndelta>>
    /\ UNCHANGED timed_out
    /\ UNCHANGED <<handlerVars, nonZhVars>>

\* receive_messages: a message of a type whose branch only prints
RmRecvPlain ==
    /\ recv_pc = "recv"
    /\ \E t \in ZhPlainTypes :
          /\ t \notin custom_handlers
          /\ t = "session.updated" => session_sent
          /\ msg_type' = t
    /\ recv_pc' = "loop"
    /\ UNCHANGED <<shutdown_event, session_ready_event, client_closed,
                   session_sent, main_pc, send_pc, is_playing,
                   audio_queue, zh_stream, play_pc, audio_data, zh_written,
                   ndelta>>
    /\ timed_out' = FALSE
    /\ UNCHANGED <<handlerVars, nonZhVars>>

\* AudioPlayer.play_bytes, with start() when the player is not playing
play_bytes(chunk) ==
    /\ is_playing' = TRUE
    /\ zh_stream' = IF is_playing THEN zh_stream ELSE "open"
    /\ play_pc' = IF is_playing THEN play_pc ELSE "loop"
    /\ audio_queue' = Append(audio_queue, chunk)

\* receive_messages: response.audio.delta, played when delta is not empty
RmRecvAudioDelta ==
    /\ recv_pc = "recv"
    /\ "response.audio.delta" \notin custom_handlers
    /\ ndelta < MaxDeltas
    /\ msg_type' = "response.audio.delta"
    /\ ndelta' = ndelta + 1
    /\ \E has_delta \in BOOLEAN :
          IF has_delta
          THEN play_bytes(ndelta + 1)
          ELSE UNCHANGED <<is_playing, zh_stream, play_pc, audio_queue>>
    /\ recv_pc' = "loop"
    /\ UNCHANGED <<shutdown_event, session_ready_event, client_closed,
                   session_sent, main_pc, send_pc, audio_data, zh_written>>
    /\ timed_out' = FALSE
    /\ UNCHANGED <<handlerVars, nonZhVars>>

\* a receive loop that treats the timeout as any other exception
RmRecvTimeoutBreaks ==
    /\ recv_pc = "recv"
    /\ recv_pc' = "stop"
    /\ UNCHANGED <<shutdown_event, session_ready_event, client_closed,
                   session_sent, main_pc, msg_type, send_pc, is_playing,
                   audio_queue, zh_stream, play_pc, audio_data, zh_written,
                   ndelta>>
    /\ timed_out' = TRUE
    /\ UNCHANGED <<handlerVars, nonZhVars>>

\* receive_messages: wait_for times out, or recv returns None
RmRecvTimeout ==
    /\ recv_pc = "recv"
    /\ recv_pc' = "loop"
    /\ UNCHANGED <<shutdown_event, session_ready_event, client_closed,
                   session_sent, main_pc, msg_type, send_pc, is_playing,
                   audio_queue, zh_stream, play_pc, audio_data, zh_written,
                   ndelta>>
    /\ timed_out' = TRUE
    /\ UNCHANGED <<handlerVars, nonZhVars>>

\* receive_messages: recv raises, the loop breaks
RmRecvError ==
    /\ recv_pc = "recv"
    /\ recv_pc' = "stop"
    /\ UNCHANGED <<shutdown_event, session_ready_event, client_closed,
                   session_sent, main_pc, msg_type, send_pc, is_playing,
                   audio_queue, zh_stream, play_pc, audio_data, zh_written,
                   ndelta>>
    /\ timed_out' = FALSE
    /\ UNCHANGED <<handlerVars, nonZhVars>>

\* finally: audio_player.stop() up to the put of the stop signal
StopBegin ==
    /\ recv_pc = "stop"
    /\ IF is_playing
       THEN /\ is_playing' = FALSE
            /\ audio_queue' = Append(audio_queue, ZhNone)
            /\ recv_pc' = "join"
       ELSE /\ recv_pc' = "close"
            /\ UNCHANGED <<is_playing, audio_queue>>
    /\ UNCHANGED <<shutdown_event, session_ready_event, client_closed,
                   session_sent, main_pc, msg_type, send_pc,
                   zh_stream, play_pc, audio_data, zh_written, ndelta>>
    /\ UNCHANGED timed_out
    /\ UNCHANGED <<handlerVars, nonZhVars>>

\* stop: the play thread has ended, join returns (or is skipped)
StopJoined ==
    /\ recv_pc = "join"
    /\ play_pc = "exit"
    /\ recv_pc' = "close_stream"
    /\ UNCHANGED <<shutdown_event, session_ready_event, client_closed,
                   session_sent, main_pc, msg_type, send_pc, is_playing,
                   audio_queue, zh_stream, play_pc, audio_data, zh_written,
                   ndelta>>
    /\ UNCHANGED timed_out
    /\ UNCHANGED <<handlerVars, nonZhVars>>

\* stop: play_thread.join(timeout=2.0) gives up on a thread still alive
StopJoinTimeout ==
    /\ recv_pc = "join"
    /\ play_pc # "exit"
    /\ recv_pc' = "close_stream"
    /\ UNCHANGED <<shutdown_event, session_ready_event, client_closed,
                   session_sent, main_pc, msg_type, send_pc, is_playing,
                   audio_queue, zh_stream, play_pc, audio_data, zh_written,
                   ndelta>>
    /\ UNCHANGED timed_out
    /\ UNCHANGED <<handlerVars, nonZhVars>>

\* stop: stream.stop_stream(); stream.close(); self.stream = None
StopCloseStream ==
    /\ recv_pc = "close_stream"
    /\ zh_stream' = "none"
    /\ recv_pc' = "drain"
    /\ UNCHANGED <<shutdown_event, session_ready_event, client_closed,
                   session_sent, main_pc, msg_type, send_pc, is_playing,
                   audio_queue, play_pc, audio_data, zh_written, ndelta>>
    /\ UNCHANGED timed_out
    /\ UNCHANGED <<handlerVars, nonZhVars>>

\* stop: one get_nowait of the drain loop
StopDrainOne ==
    /\ recv_pc = "drain"
    /\ audio_queue # <<>>
    /\ audio_queue' = Tail(audio_queue)
    /\ UNCHANGED <<shutdown_event, session_ready_event, client_closed,
                   session_sent, main_pc, recv_pc, msg_type, send_pc,
                   is_playing, zh_stream, play_pc, audio_data, zh_written,
                   ndelta>>
    /\ UNCHANGED timed_out
    /\ UNCHANGED <<handlerVars, nonZhVars>>

\* stop: the queue is empty, stop returns
StopDrained ==
    /\ recv_pc = "drain"
    /\ audio_queue = <<>>
    /\ recv_pc' = "close"
    /\ UNCHANGED <<shutdown_event, session_ready_event, client_closed,
                   session_sent, main_pc, msg_type, send_pc, is_playing,
                   audio_queue, zh_stream, play_pc, audio_data, zh_written,
                   ndelta>>
    /\ UNCHANGED timed_out
    /\ UNCHANGED <<handlerVars, nonZhVars>>

\* finally: if not self.client.closed: await self.client.close()
RmClose ==
    /\ recv_pc = "close"
    /\ client_closed' = TRUE
    /\ recv_pc' = "done"
    /\ UNCHANGED <<shutdown_event, session_ready_event,
                   session_sent, main_pc, msg_type, send_pc, is_playing,
                   audio_queue, zh_stream, play_pc, audio_data, zh_written,
                   ndelta>>
    /\ UNCHANGED timed_out
    /\ UNCHANGED <<handlerVars, nonZhVars>>

\* _play_loop: while self.is_playing
PlLoop ==
    /\ play_pc = "loop"
    /\ play_pc' = IF is_playing THEN "get" ELSE "exit"
    /\ UNCHANGED <<shutdown_event, session_ready_event, client_closed,
                   session_sent, main_pc, recv_pc, msg_type, send_pc,
                   is_playing, audio_queue, zh_stream, audio_data,
                   zh_written, ndelta>>
    /\ UNCHANGED timed_out
    /\ UNCHANGED <<handlerVars, nonZhVars>>

\* _play_loop: audio_queue.get returns an item; None ends the loop
PlGet ==
    /\ play_pc = "get"
    /\ audio_queue # <<>>
    /\ audio_data' = Head(audio_queue)
    /\ audio_queue' = Tail(audio_queue)
    /\ play_pc' = IF Head(audio_queue) = ZhNone THEN "exit" ELSE "check"
    /\ UNCHANGED <<shutdown_event, session_ready_event, client_closed,
                   session_sent, main_pc, recv_pc, msg_type, send_pc,
                   is_playing, zh_stream, zh_written, ndelta>>
    /\ UNCHANGED timed_out
    /\ UNCHANGED <<handlerVars, nonZhVars>>

\* _play_loop: audio_queue.get(timeout=1.0) raises queue.Empty
PlGetEmpty ==
    /\ play_pc = "get"
    /\ audio_queue = <<>>
    /\ play_pc' = "loop"
    /\ UNCHANGED <<shutdown_event, session_ready_event, client_closed,
                   session_sent, main_pc, recv_pc, msg_type, send_pc,
                   is_playing, audio_queue, zh_stream, audio_data,
                   zh_written, ndelta>>
    /\ UNCHANGED timed_out
    /\ UNCHANGED <<handlerVars, nonZhVars>>

\* _play_loop: if self.stream and self.stream.is_active()
PlCheck ==
    /\ play_pc = "check"
    /\ play_pc' = IF zh_stream = "open" THEN "write" ELSE "loop"
    /\ UNCHANGED <<shutdown_event, session_ready_event, client_closed,
                   session_sent, main_pc, recv_pc, msg_type, send_pc,
                   is_playing, audio_queue, zh_stream, audio_data,
                   zh_written, ndelta>>
    /\ UNCHANGED timed_out
    /\ UNCHANGED <<handlerVars, nonZhVars>>

\* _play_loop: self.stream.write(audio_data).  When stop has closed the
\* stream since the test, the thread either finds self.stream already None
\* (the AttributeError is printed) or writes to the stream that was closed
PlWrite ==
    /\ play_pc = "write"
    /\ \E issued \in BOOLEAN :
          /\ zh_stream = "open" => issued
          /\ zh_written' = IF issued
                           THEN Append(zh_written, audio_data) ELSE zh_written
    /\ play_pc' = "loop"
    /\ UNCHANGED <<shutdown_event, session_ready_event, client_closed,
                   session_sent, main_pc, recv_pc, msg_type, send_pc,
                   is_playing, audio_queue, zh_stream, audio_data, ndelta>>
    /\ UNCHANGED timed_out
    /\ UNCHANGED <<handlerVars, nonZhVars>>

\* register_handler: self._custom_handlers[message_type] = handler
register_handler ==
    /\ \E t \in HandlerTypes :
          /\ t \notin custom_handlers
          /\ custom_handlers' = custom_handlers \cup {t}
    /\ UNCHANGED <<shutdown_event, session_ready_event, client_closed,
                   session_sent, main_pc, recv_pc, msg_type, send_pc,
                   is_playing, audio_queue, zh_stream, play_pc, audio_data,
                   zh_written, ndelta, timed_out, handler_calls>>
    /\ UNCHANGED nonZhVars

\* receive_messages: a message whose type has a custom handler goes to that
\* handler, and the iteration ends there
RmRecvCustom ==
    /\ recv_pc = "recv"
    /\ handler_calls < MaxCalls
    /\ \E t \in custom_handlers :
          /\ msg_type' = t
          /\ IF t = "response.audio.delta"
             THEN ndelta < MaxDeltas /\ ndelta' = ndelta + 1
             ELSE ndelta' = ndelta
    /\ handler_calls' = handler_calls + 1
    /\ timed_out' = FALSE
    /\ recv_pc' = "loop"
    /\ UNCHANGED <<shutdown_event, session_ready_event, client_closed,
                   session_sent, main_pc, send_pc, is_playing, audio_queue,
                   zh_stream, play_pc, audio_data, zh_written,
                   custom_handlers>>
    /\ UNCHANGED nonZhVars

ZhipuNext ==
    \/ handle_shutdown
    \/ ZhCreateReceiveTask
    \/ ZhStartPump
    \/ RmCheck
    \/ RmRecvPlain
    \/ RmRecvAudioDelta
    \/ RmRecvTimeout
    \/ RmRecvError
    \/ StopBegin
    \/ StopJoined
    \/ StopJoinTimeout
    \/ StopCloseStream
    \/ StopDrainOne
    \/ StopDrained
    \/ RmClose
    \/ PlLoop
    \/ PlGet
    \/ PlGetEmpty
    \/ PlCheck
    \/ PlWrite

SpecZhipu == Init /\ [][ZhipuNext]_vars

\* MessageHandler under a host that also registers custom handlers
HandlersNext ==
    \/ register_handler
    \/ RmRecvCustom
    \/ handle_shutdown
    \/ ZhCreateReceiveTask
    \/ ZhStartPump
    \/ RmCheck
    \/ RmRecvPlain
    \/ RmRecvAudioDelta
    \/ RmRecvTimeout
    \/ RmRecvError
    \/ StopBegin
    \/ StopJoined
    \/ StopJoinTimeout
    \/ StopCloseStream
    \/ StopDrainOne
    \/ StopDrained
    \/ RmClose
    \/ PlLoop
    \/ PlGet
    \/ PlGetEmpty
    \/ PlCheck
    \/ PlWrite

SpecHandlers == Init /\ [][HandlersNext]_vars

\* the steps the event loop and the play thread take on their own
ZhipuProgress ==
    \/ RmCheck
    \/ RmRecvTimeout
    \/ StopBegin
    \/ StopJoined
    \/ StopJoinTimeout
    \/ StopCloseStream
    \/ StopDrainOne
    \/ StopDrained
    \/ RmClose

ZhipuPlayProgress ==
    \/ PlLoop
    \/ PlGet
    \/ PlGetEmpty
    \/ PlCheck
    \/ PlWrite

SpecZhipuFair ==
    /\ SpecZhipu
    /\ WF_vars(ZhCreateReceiveTask)
    /\ WF_vars(ZhStartPump)
    /\ WF_vars(ZhipuProgress)
    /\ WF_vars(ZhipuPlayProgress)

(***************************************************************************)
(* handle_messages, the transcript branches, for a client constructed with *)
(* on_input_transcript and on_output_transcript.  A delta is tagged with   *)
(* the turn it belongs to; a delivered text is the sequence of the deltas  *)
(* it is made of.                                                          *)
(***************************************************************************)
TranscriptFrame(t) ==
    /\ ws = "open"
    /\ hm_pc = "running"
    /\ event_type' = t
    /\ entry_state' = TurnState
    /\ UNCHANGED <<ws, turnVars, hm_pc, sent, event_ids, transport, seen_session_updated,
                   playerVars, rec_pc, fed, qwenAux, codecVars, zhVars,
                   cfgVars, fcVars>>

\* "conversation.item.input_audio_transcription.completed"
OnInputTranscript ==
    /\ TranscriptFrame("conversation.item.input_audio_transcription.completed")
    /\ print_input_transcript' = TRUE
    /\ UNCHANGED <<output_transcript_buffer, delivered, tturn, ntr>>

\* "response.audio_transcript.delta": buffered while the input transcript
\* is awaited, else the buffer is flushed and the delta forwarded
OnOutputTranscriptDelta ==
    /\ TranscriptFrame("response.audio_transcript.delta")
    /\ ntr < MaxTDeltas
    /\ ntr' = ntr + 1
    /\ LET d == [turn |-> tturn, n |-> ntr + 1]
       IN  IF ~print_input_transcript
           THEN /\ output_transcript_buffer' = Append(output_transcript_buffer, d)
                /\ UNCHANGED delivered
           ELSE /\ delivered' =
                      IF output_transcript_buffer # <<>>
                      THEN delivered \o << output_transcript_buffer, <<d>> >>
                      ELSE Append(delivered, <<d>>)
                /\ output_transcript_buffer' = <<>>
    /\ UNCHANGED <<print_input_transcript, tturn>>

\* "response.audio_transcript.done": the turn's transcript is complete
OnOutputTranscriptDone ==
    /\ TranscriptFrame("response.audio_transcript.done")
    /\ tturn < MaxTurns
    /\ tturn' = tturn + 1
    /\ print_input_transcript' = FALSE
    /\ UNCHANGED <<output_transcript_buffer, delivered, ntr>>

\* connect for the transcript client: as MainConnect, with no pump
TranscriptConnect ==
    /\ ws = "none"
    /\ connect
    /\ hm_pc' = IF connect_raised' THEN hm_pc ELSE "running"
    /\ UNCHANGED <<turnVars, event_type, entry_state, seen_session_updated,
                   playerVars, rec_pc, fed, qwenAux, codecVars, zhVars, trVars,
                   voice, instructions, turn_detection_mode, fcVars>>

TranscriptNext ==
    \/ TranscriptConnect
    \/ OnInputTranscript
    \/ OnOutputTranscriptDelta
    \/ OnOutputTranscriptDone

SpecTranscript == Init /\ [][TranscriptNext]_vars

\* the two producers of outbound frames, the pump and the receive loop
SendNext ==
    \/ MainConnect
    \/ Receive
    \/ RecRead
    \/ RecSend

SpecSend == Init /\ [][SendNext]_vars

(***************************************************************************)
(* The qwen client with its pump when the microphone, the transport or a   *)
(* frame fails, and when the application calls close.                      *)
(***************************************************************************)
\* an exception leaves record_and_send: gather hands it to main, main ends
\* with it, and asyncio.run cancels handle_messages on its way out
PumpRaises ==
    /\ rec_pc' = "raised"
    /\ hm_pc' = IF hm_pc = "running" THEN "cancelled" ELSE hm_pc

\* record_and_send: stream.read(3200) raises; the finally block closes the
\* microphone and the exception goes on
RecReadFails ==
    /\ rec_pc = "read"
    /\ PumpRaises
    /\ UNCHANGED <<ws, turnVars, event_type, entry_state, sent, event_ids,
                   transport, seen_session_updated, playerVars, fed, restVars>>

\* record_and_send: client.stream_audio raises because the websocket is
\* closed
RecSendFails ==
    /\ rec_pc = "send"
    /\ ws # "open"
    /\ PumpRaises
    /\ UNCHANGED <<ws, turnVars, event_type, entry_state, sent, event_ids,
                   transport, seen_session_updated, playerVars, fed, restVars>>

\* the connection is lost: the websocket is closed by the failure
TransportFails ==
    /\ ws = "open"
    /\ ws' = "closed"
    /\ UNCHANGED <<turnVars, event_type, entry_state, hm_pc, sent, event_ids,
                   transport, seen_session_updated, playerVars, rec_pc, fed,
                   restVars>>

\* handle_messages: json.loads(message) raises on a body that is not JSON
ReceiveUnparseable ==
    /\ ws = "open"
    /\ hm_pc = "running"
    /\ hm_pc' = "exited"
    /\ UNCHANGED <<ws, turnVars, event_type, entry_state, sent, event_ids,
                   transport, seen_session_updated, playerVars, rec_pc, fed,
                   restVars>>

\* handle_messages: a frame with no type field matches no branch
ReceiveUntyped ==
    /\ HandleMessage(Frame(None, None, TRUE))
    /\ UNCHANGED fed

FaultNext ==
    \/ MainConnect
    \/ Receive
    \/ ReceiveUnparseable
    \/ ReceiveUntyped
    \/ RecRead
    \/ RecSend
    \/ RecReadFails
    \/ RecSendFails
    \/ TransportFails
    \/ ClientClose
    \/ HmConnectionClosed

SpecFault == Init /\ [][FaultNext]_vars

(***************************************************************************)
(* The session configuration: connect in each turn-detection mode, and an  *)
(* application that calls update_session with partial configurations.      *)
(***************************************************************************)
Voices == {"Cherry", "Ethan"}
Modes == {"SERVER_VAD", "MANUAL", "invalid"}

\* the dictionaries the application passes to update_session
Partials == {[voice |-> "Ethan"], [voice |-> "Cherry"],
             [turn_detection |-> NullDetection],
             [voice |-> "Ethan", instructions |-> "terse"]}

\* the client constructed with any voice and any turn-detection mode
SessionInit ==
    /\ InitProgram
    /\ voice \in Voices
    /\ instructions = "xiaoyun"
    /\ turn_detection_mode \in Modes
    /\ pcm = <<>>

\* the application calls update_session(partial) on the connected client
AppUpdateSession ==
    /\ ws = "open"
    /\ hm_pc = "running"
    /\ Len(session_payloads) < 1 + MaxUpdates
    /\ \E partial \in Partials : update_session(partial)
    /\ UNCHANGED <<ws, turnVars, event_type, entry_state, hm_pc,
                   seen_session_updated, playerVars, rec_pc, fed, qwenAux,
                   codecVars, zhVars, trVars, voice, instructions,
                   turn_detection_mode, connect_raised, fcVars>>

SessionNext ==
    \/ MainConnect
    \/ AppUpdateSession
    \/ RecRead
    \/ RecSend

SpecSession == SessionInit /\ [][SessionNext]_vars

(***************************************************************************)
(* MessageHandler._handle_function_call, reached from receive_messages     *)
(* for response.function_call_arguments.done.                              *)
(***************************************************************************)
FunctionNames == {"phoneCall", "other"}

\* the arguments member of the message: the text of a JSON object, the text
\* of a JSON array, text that is not JSON, or nothing (None or "")
ArgumentKinds == {"object", "array", "invalid", "empty"}

\* json.loads(arguments): the type of what it returns, or the error it raises
json_loads(arguments) ==
    CASE arguments = "object" -> "dict"
      [] arguments = "array" -> "list"
      [] OTHER -> "JSONDecodeError"

\* args = json.loads(arguments) if arguments else {}
ParsedArgs(arguments) ==
    IF arguments = "empty" THEN "dict" ELSE json_loads(arguments)

\* receive_messages: response.function_call_arguments.done, through
\* _handle_function_call up to its first await.  For phoneCall the arguments
\* are parsed and args.get is called: a JSONDecodeError is caught and
\* printed, any other exception leaves the handler and breaks the loop.
RmRecvFunctionCall ==
    /\ recv_pc = "recv"
    /\ "response.function_call_arguments.done" \notin custom_handlers
    /\ Len(zh_sent) < 2 * MaxFnCalls
    /\ msg_type' = "response.function_call_arguments.done"
    /\ timed_out' = FALSE
    /\ \E name \in FunctionNames, arguments \in ArgumentKinds :
          /\ fc_name' = name
          /\ fc_args' = arguments
          /\ recv_pc' = IF name # "phoneCall" THEN "loop"
                        ELSE CASE ParsedArgs(arguments) = "dict" -> "fc_send_item"
                               [] ParsedArgs(arguments) = "JSONDecodeError" -> "loop"
                               [] OTHER -> "stop"
    /\ UNCHANGED zh_sent
    /\ UNCHANGED <<shutdown_event, session_ready_event, client_closed,
                   session_sent, main_pc,  send_pc, is_playing,
                   audio_queue, zh_stream, play_pc, audio_data, zh_written,
                   ndelta, handlerVars>>
    /\ UNCHANGED <<clientVars, playerVars, rec_pc, fed, qwenAux, codecVars,
                   trVars, cfgVars>>

\* _handle_function_call: after asyncio.sleep(1),
\* await self.client.send(ItemCreateMessage(item=FunctionCallOutputItem(...)))
FcSendItem ==
    /\ recv_pc = "fc_send_item"
    /\ IF client_closed
       THEN recv_pc' = "stop" /\ UNCHANGED zh_sent
       ELSE /\ zh_sent' = Append(zh_sent, "conversation.item.create")
            /\ recv_pc' = "fc_send_create"
    /\ UNCHANGED <<fc_name, fc_args, timed_out>>
    /\ UNCHANGED <<shutdown_event, session_ready_event, client_closed,
                   session_sent, main_pc, msg_type, send_pc, is_playing,
                   audio_queue, zh_stream, play_pc, audio_data, zh_written,
                   ndelta, handlerVars>>
    /\ UNCHANGED <<clientVars, playerVars, rec_pc, fed, qwenAux, codecVars,
                   trVars, cfgVars>>

\* _handle_function_call: await self.client.send_json({"type": "response.create"})
FcSendCreate ==
    /\ recv_pc = "fc_send_create"
    /\ IF client_closed
       THEN recv_pc' = "stop" /\ UNCHANGED zh_sent
       ELSE /\ zh_sent' = Append(zh_sent, "response.create")
            /\ recv_pc' = "loop"
    /\ UNCHANGED <<fc_name, fc_args, timed_out>>
    /\ UNCHANGED <<shutdown_event, session_ready_event, client_closed,
                   session_sent, main_pc, msg_type, send_pc, is_playing,
                   audio_queue, zh_stream, play_pc, audio_data, zh_written,
                   ndelta, handlerVars>>
    /\ UNCHANGED <<clientVars, playerVars, rec_pc, fed, qwenAux, codecVars,
                   trVars, cfgVars>>

\* the receive loop of a session without audio, with function calls
FunctionCallNext ==
    \/ handle_shutdown
    \/ ZhCreateReceiveTask
    \/ ZhStartPump
    \/ RmCheck
    \/ RmRecvPlain
    \/ RmRecvTimeout
    \/ RmRecvError
    \/ RmRecvFunctionCall
    \/ FcSendItem
    \/ FcSendCreate
    \/ StopBegin
    \/ RmClose

SpecFunctionCall == Init /\ [][FunctionCallNext]_vars

(***************************************************************************)
(* Properties                                                              *)
(***************************************************************************)
\* the item the consumer holds between queue.get and stream.write
Held == IF run_pc \in {"check", "write"} THEN <<data>> ELSE <<>>

\* every chunk that is written, held or queued, in that order
Pending == written \o Held \o queue

\* a call of handle_interrupt begins
InterruptCall == caller_pc = "idle" /\ caller_pc' = "int_clear"

\* the consumer writes a chunk to the output device
DeviceWrite == written' # written

\* the receive loop dispatches a frame of type t
Dispatches(t) == \E f \in Frames : f.type = t /\ HandleMessage(f)

Cancels(s) == Count(s, "response.cancel")

\* C1: once a call of handle_interrupt has returned, the consumer writes no
\* chunk whose tag is older than the live generation.
C1_NoStaleWrite ==
    [][(DeviceWrite /\ interrupt_evt /\ caller_pc = "idle")
          => data.gen >= Generation]_vars

\* C2: dispatching speech_started during a turn interrupts the player
\* (generation + 1, no chunk of the prior generation left queued), sends
\* exactly one response.cancel and leaves the dispatcher Idle with no ids.
C2_InterruptOnSpeechStarted ==
    [][(Dispatches("input_audio_buffer.speech_started") /\ is_responding)
          => /\ Generation' = Generation + 1
             /\ \A i \in 1..Len(queue') : queue'[i].gen = Generation'
             /\ Cancels(sent') = Cancels(sent) + 1
             /\ TurnState' = "Idle"
             /\ current_response_id' = None
             /\ current_item_id' = None]_vars

\* C3: the generation grows by exactly 1 on each call of handle_interrupt
\* and is unchanged by every other step.
C3_GenerationCounter ==
    [][IF InterruptCall
       THEN Generation' = Generation + 1
       ELSE Generation' = Generation]_vars

\* C4: the barge-in scenario: chunk 1 enters under generation 0; after
\* speech_started the generation is 1 and no generation-0 chunk is queued;
\* at the end chunk 2 carries generation 1, one response.cancel was sent and
\* the dispatcher is Idle with no ids.
C4_BargeInScenario ==
    /\ fed >= 4 => \E i \in 1..Len(Pending) : Pending[i] = [id |-> 1, gen |-> 0]
    /\ fed >= 5 => /\ Generation = 1
                   /\ \A i \in 1..Len(queue) : queue[i].gen = 1
    /\ fed = 6 => /\ \E i \in 1..Len(Pending) : Pending[i] = [id |-> 2, gen |-> 1]
                  /\ Cancels(sent) = 1
                  /\ TurnState = "Idle"
                  /\ current_response_id = None
                  /\ current_item_id = None

C7_DoneReturnsIdle ==
    event_type = "response.done"
        => /\ TurnState = "Idle"
           /\ current_response_id = None
           /\ current_item_id = None

C7_Witness ==
    /\ event_type = "response.done"
    /\ entry_state = "Responding"
    /\ TurnState = "Idle"

\* C8: dispatching a frame of an unknown type leaves the receive loop
\* running and changes neither the turn, nor the playback state, nor what
\* was sent.
C8_UnknownTypeHarmless ==
    [][Dispatches("x.unknown")
          => /\ hm_pc' = "running"
             /\ ws' = "open"
             /\ UNCHANGED <<turnVars, sent, event_ids, transport, playerVars>>]_vars

C8_Witness ==
    /\ event_type = "x.unknown"
    /\ entry_state = "Responding"
    /\ hm_pc = "running"
    /\ queue # <<>>

\* C9: the capture pump reads no audio and sends no
\* input_audio_buffer.append before session.updated has been dispatched.
C9_NoAudioBeforeReady ==
    (rec_pc = "send" \/ Count(sent, "input_audio_buffer.append") > 0)
        => seen_session_updated

\* C10: dispatching speech_started while Idle sends nothing and changes
\* neither the turn nor the playback state.
C10_SpeechStartedIdleNoOp ==
    [][(Dispatches("input_audio_buffer.speech_started") /\ ~is_responding)
          => UNCHANGED <<turnVars, sent, event_ids, transport, playerVars, hm_pc>>]_vars

C10_Witness ==
    /\ event_type = "input_audio_buffer.speech_started"
    /\ entry_state = "Idle"
    /\ TurnState = "Idle"
    /\ queue # <<>>
    /\ Cancels(sent) = 0

\* a call of stop has returned after closing the stream
StopReturned == stream = "closed" /\ caller_pc = "idle"

\* C12: stop never raises, and once a stop has returned the queue is empty,
\* the device is released and the consumer has stopped, however often stop
\* is called.
C12_StopSafeIdempotent ==
    /\ ~caller_err
    /\ StopReturned => (queue = <<>> /\ run_pc \in {"exit", "crashed"})

\* C15: dispatching an error frame, with or without an error payload, leaves
\* the receive loop running, the transport open and the turn unchanged.
C15_ErrorFrameSurvives ==
    [][Dispatches("error")
          => /\ hm_pc' = "running"
             /\ ws' = "open"
             /\ UNCHANGED turnVars]_vars

\* C20: response.created leaves the dispatcher in AwaitingResponse holding
\* the frame's response id, and response.output_item.added leaves it in
\* Responding holding the frame's item id, whatever the state before.
C20_TurnCapture ==
    [][\A f \in Frames :
          /\ (f.type = "response.created" /\ HandleMessage(f))
                => (TurnState' = "AwaitingResponse"
                    /\ current_response_id' = f.id)
          /\ (f.type = "response.output_item.added" /\ HandleMessage(f))
                => (TurnState' = "Responding"
                    /\ current_item_id' = f.id)]_vars

\* chunk n has been written to the output device
Played(n) == \E i \in 1..Len(written) : written[i].id = n

\* C17: a chunk enqueued after an interrupt, under the generation then live,
\* is eventually written, unless a stop or a further interrupt intervenes.
C17_PlaybackResumes ==
    \A n \in 1..MaxChunks :
        ((\E i \in 1..Len(queue) : queue[i] = [id |-> n, gen |-> 1])
            /\ caller_pc = "idle")
        ~> (Played(n) \/ stop_evt \/ caller_pc # "idle")

\* C18: handing add_audio a chunk whose tag differs from the live generation
\* leaves the queue untouched.
C18_EnqueueDropsStale ==
    [][(pending # NoPending /\ pending' = NoPending /\ pending # Generation)
          => (queue' = queue /\ nadded' = nadded)]_vars

C14_EventIdsIncrease ==
    \A i, j \in 1..Len(event_ids) : i < j => event_ids[i] < event_ids[j]

\* C16: a raw PCM buffer encoded as the outbound path encodes it and decoded
\* as the inbound path decodes it comes back byte for byte.
C16_RoundTrip == codec_pc = "decoded" => decoded = pcm

C16_Witness ==
    /\ codec_pc = "decoded"
    /\ Len(pcm) = 2
    /\ pcm[1] = 165
    /\ Len(wire) = 4
    /\ wire[4] = PadChar
    /\ decoded = pcm

\* send_audio_from_mic has returned, or was never started
PumpTerminated ==
    \/ send_pc = "done"
    \/ send_pc = "off" /\ main_pc = "returned"

\* C11: once shutdown_event is set, the capture loop, the receive loop and
\* the play thread each eventually end and audio_queue ends empty.
C11_ShutdownTerminates ==
    shutdown_event ~> /\ PumpTerminated
                      /\ recv_pc \in {"off", "done"}
                      /\ play_pc \in {"none", "exit"}
                      /\ audio_queue = <<>>

\* C19: once the receive loop has dispatched session.updated,
\* session_ready_event is set, so that a pump waiting on it can proceed.
C19_SessionReadySet ==
    (msg_type = "session.updated" /\ send_pc = "wait_ready") => PumpProceeds
\* the deltas delivered so far, in the order the callback received them
RECURSIVE Flatten(_)
Flatten(ss) == IF ss = <<>> THEN <<>> ELSE Head(ss) \o Flatten(Tail(ss))

\* C21: every delta of an earlier turn is delivered to on_output_transcript
\* before any delta of a later turn (never in the same text or after it),
\* and the texts delivered plus the buffer are the deltas received, in order.
C21_TurnsNotInterleaved ==
    /\ \A k \in 1..Len(Flatten(delivered) \o output_transcript_buffer) :
          (Flatten(delivered) \o output_transcript_buffer)[k].n = k
    /\ \A i, j \in 1..Len(delivered) :
          \A a \in 1..Len(delivered[i]), b \in 1..Len(delivered[j]) :
             delivered[i][a].turn < delivered[j][b].turn => i < j
\* the steps that change the queue through queue.Queue's put and get
SynchronizedQueueOp == RunGet \/ CallAddAudio \/ StopPut \/ ProducerEnqueue

\* C22: the queue contents change only through the queue's synchronized
\* operations, the interrupt state only through handle_interrupt, and no
\* step of the consumer writes the interrupt state or the turn state.
C22_SynchronizedWrites ==
    [][/\ (queue' # queue) => SynchronizedQueueOp
       /\ (interrupt_evt' # interrupt_evt) => InterruptSet
       /\ (RunLoop \/ RunGet \/ RunCheck \/ RunWrite)
             => UNCHANGED <<interrupt_evt, turnVars>>]_vars
C24_BadAudioDeltaDropped ==
    [][(\E f \in Frames : /\ f.type = "response.audio.delta"
                          /\ ~f.ok
                          /\ HandleMessage(f))
          => /\ hm_pc' = "running"
             /\ queue' = queue
             /\ UNCHANGED turnVars]_vars

\* C25: after a malformed frame (a body that is not JSON, no type field, an
\* expected field missing) the receive loop is still running and the
\* connection is still open.
C25_MalformedFrameSurvives ==
    [][(\/ \E f \in Frames : ~f.ok /\ HandleMessage(f)
        \/ ReceiveUnparseable
        \/ ReceiveUntyped)
          => /\ hm_pc' = "running"
             /\ ws' = "open"]_vars

\* C26: when the connection is lost the receive loop ends by raising the
\* failure to its caller, and no connect follows.
C26_TransportFailurePropagates ==
    [][/\ (HmConnectionClosed /\ releases = 0) => hm_pc' = "raised"
       /\ ws = "closed" => ws' = "closed"]_vars

\* C27: when the microphone read fails the pump ends its loop without the
\* exception leaving it, and the receive loop is told to stop, not cancelled.
C27_ReadFailureContained ==
    [][RecReadFails => /\ rec_pc' = "exited"
                       /\ hm_pc' # "cancelled"]_vars

\* C30: a send the pump has issued is written to the transport even when
\* close has released the connection in the meantime.
C30_CloseDrainsSends ==
    [][(rec_pc = "send" /\ rec_pc' # "send" /\ releases = 1)
          => Len(sent') = Len(sent) + 1]_vars
\* the receive loop dispatches a message of type t
ZhDispatches(t) ==
    /\ recv_pc = "recv"
    /\ recv_pc' = "loop"
    /\ ~timed_out'
    /\ msg_type' = t

\* C28: a message of an unrecognized type goes to the handler registered for
\* that type, once; with no handler it changes nothing; a message of a
\* recognized type keeps its built-in handling whatever is registered.
C28_ExtensionRouting ==
    [][/\ (ZhDispatches("unknown.type") /\ "unknown.type" \in custom_handlers)
             => handler_calls' = handler_calls + 1
       /\ (ZhDispatches("unknown.type") /\ "unknown.type" \notin custom_handlers)
             => UNCHANGED <<handler_calls, is_playing, audio_queue, zh_stream,
                            play_pc, client_closed>>
       /\ (ZhDispatches("response.audio.delta") /\ ndelta' = ndelta + 1)
             => RmRecvAudioDelta]_vars

\* C29: a receive timeout leaves the loop running and changes nothing else;
\* the check that follows sends the loop back to recv unless shutdown_event
\* is set or the client is closed.
C29_TimeoutNotAnError ==
    [][/\ (recv_pc = "recv" /\ recv_pc' # "recv" /\ timed_out')
             => /\ recv_pc' = "loop"
                /\ UNCHANGED <<client_closed, shutdown_event, msg_type,
                               is_playing, audio_queue, zh_stream, play_pc,
                               audio_data, zh_written>>
       /\ (recv_pc = "loop" /\ timed_out /\ recv_pc' # "loop")
             => recv_pc' = IF shutdown_event \/ client_closed
                           THEN "stop" ELSE "recv"]_vars

C29_Witness ==
    /\ timed_out
    /\ recv_pc = "recv"
    /\ ~shutdown_event
    /\ ~client_closed
    /\ is_playing
\* the configuration the client holds: what connect builds from its fields
CachedConfig ==
    session_config(IF turn_detection_mode = "MANUAL"
                   THEN NullDetection ELSE ServerVad)

\* partial merged into config: keys of partial overwrite, the others are kept
Merge(config, partial) ==
    [k \in DOMAIN config \cup DOMAIN partial |->
        IF k \in DOMAIN partial THEN partial[k] ELSE config[k]]

\* C31: update_session(partial) sends exactly one session.update frame and
\* leaves the client holding its configuration merged with partial.
C31_UpdateMerges ==
    [][AppUpdateSession
          => /\ sent' = Append(sent, "session.update")
             /\ CachedConfig' =
                   Merge(CachedConfig, session_payloads'[Len(session_payloads')])]_vars

\* C37: connect sends the session.update of its mode as the first frame of the
\* connection, once, so that every input_audio_buffer.append comes after it;
\* with an invalid mode it raises and sends nothing.
C37_SessionUpdateFirst ==
    [][/\ (ws = "none" /\ ws' = "open")
             => IF turn_detection_mode \in {"MANUAL", "SERVER_VAD"}
                THEN /\ sent' = <<"session.update">>
                     /\ session_payloads' = <<CachedConfig>>
                     /\ CachedConfig.turn_detection =
                           IF turn_detection_mode = "MANUAL"
                           THEN NullDetection ELSE ServerVad
                     /\ ~connect_raised'
                ELSE /\ connect_raised'
                     /\ sent' = <<>>
                     /\ session_payloads' = <<>>
       /\ sent # <<>> => sent'[1] = sent[1]
       /\ Count(sent', "input_audio_buffer.append") > 0
             => sent'[1] = "session.update"
       /\ connect_raised => Count(sent', "session.update") = 0]_vars

C37_Witness ==
    /\ turn_detection_mode = "MANUAL"
    /\ sent # <<>>
    /\ sent[1] = "session.update"
    /\ session_payloads[1].turn_detection = NullDetection
    /\ Count(sent, "input_audio_buffer.append") > 0
\* C32: the playback queue has a fixed capacity: however far the producer
\* runs ahead of the consumer, the queue never holds as many chunks as the
\* producer hands over.
C32_QueueBounded == Len(queue) < MaxChunks
\* C33: dispatching input_audio_buffer.speech_stopped changes neither the
\* dispatcher state, nor the response and item ids, nor the playback
\* generation and queue, and sends nothing.
C33_SpeechStoppedNoTransition ==
    [][Dispatches("input_audio_buffer.speech_stopped")
          => /\ TurnState' = TurnState
             /\ Generation' = Generation
             /\ UNCHANGED <<turnVars, interrupt_evt, queue, sent, event_ids,
                            transport, hm_pc>>]_vars

C33_Witness ==
    /\ event_type = "input_audio_buffer.speech_stopped"
    /\ entry_state = "Responding"
    /\ TurnState = "Responding"
    /\ current_response_id # None
    /\ queue # <<>>
\* C34: whenever the client is not responding, it holds neither a response
\* id nor an item id.
C34_IdleHasNoIds ==
    ~is_responding => (current_response_id = None /\ current_item_id = None)
\* C35: when receive_messages has returned, whatever ended its loop, the
\* audio player is stopped (not playing, stream released, queue drained) and
\* the transport is closed.
C35_CleanupOnExit ==
    recv_pc = "done" => /\ ~is_playing
                        /\ zh_stream = "none"
                        /\ audio_queue = <<>>
                        /\ client_closed

C35_Witness ==
    /\ recv_pc = "done"
    /\ zh_written # <<>>
    /\ shutdown_event
    /\ client_closed

\* C36: the play thread writes to the output stream only while it is open,
\* and not once stop has returned.
C36_NoWriteAfterStop ==
    [][zh_written' # zh_written
          => /\ zh_stream = "open"
             /\ recv_pc \notin {"close", "done"}]_vars
\* C38: a function call naming phoneCall with parseable arguments is answered
\* by one function-call output item and then one response.create before the
\* loop receives again; any other name, or arguments that do not parse, sends
\* nothing and the loop goes on.
C38_FunctionCallAnswered ==
    [][/\ (RmRecvFunctionCall /\ fc_name' = "phoneCall"
              /\ json_loads(fc_args') # "JSONDecodeError")
             => recv_pc' = "fc_send_item"
       /\ (RmRecvFunctionCall /\ (fc_name' # "phoneCall"
                                   \/ json_loads(fc_args') = "JSONDecodeError"))
             => recv_pc' = "loop"
       /\ (recv_pc = "fc_send_item" /\ recv_pc' # recv_pc)
             => /\ zh_sent' = Append(zh_sent, "conversation.item.create")
                /\ recv_pc' = "fc_send_create"
       /\ (recv_pc = "fc_send_create" /\ recv_pc' # recv_pc)
             => /\ zh_sent' = Append(zh_sent, "response.create")
                /\ recv_pc' = "loop"
       /\ zh_sent' # zh_sent
             => recv_pc \in {"fc_send_item", "fc_send_create"}]_vars

====
